---------------------------- MODULE Spec2Model ----------------------------
(***************************************************************************)
(* serverstf: the websocket session engine (serverstf/websocket.py) and    *)
(* the poller (serverstf/poll.py), modelled as state machines.             *)
(*                                                                         *)
(* The two are separate OS processes (the "websocket" and "poller"         *)
(* subcommands) that share nothing but the external cache, so each has a   *)
(* specification of its own (SessionSpec, PollSpec) in which the other     *)
(* process is not started; Spec is their interleaving.                     *)
(***************************************************************************)
EXTENDS Integers, Sequences, FiniteSets, TLC

(***************************************************************************)
(* Bounds of the model.                                                    *)
(***************************************************************************)
\* inputs over all connections: frames received, and send() calls made by
\* callers other than the read-dispatch duty
MaxInputs == 2
\* entries of the interest queue when the poller starts
MaxQueue == 3
\* addresses an external producer pushes while the poller runs
MaxProduce == 1
\* drains of the interest queue (rounds of the while loop) that are counted
MaxDrains == 2

\* The connections the acceptor is offered.  Sessions share no state, so two
\* of them show every way one session can bear on another.
Conns == {1, 2}

(***************************************************************************)
(* JSON values as json.loads returns them.  A scalar carries its Python    *)
(* type t; an object carries its keys in iteration order.                  *)
(***************************************************************************)
JStr(x) == [t |-> "str", s |-> x, n |-> 0]
JInt(x) == [t |-> "int", s |-> "", n |-> x]
JNull == [t |-> "null", s |-> "", n |-> 0]

\* an entity that is a JSON object with the members ip and port among its keys
EntityObj(ks, i, p) == [t |-> "obj", keys |-> ks, ip |-> i, port |-> p]
\* an entity that is a JSON string
EntityStr == [t |-> "str", keys |-> << >>, ip |-> JNull, port |-> JNull]

GoodIp == JStr("10.0.0.1")
GoodPort == JInt(27015)
GoodEntity == EntityObj(<<"ip", "port">>, GoodIp, GoodPort)

Entities ==
    { GoodEntity,
      EntityObj(<<"port", "ip">>, GoodIp, GoodPort),
      EntityObj(<<"ip">>, GoodIp, JNull),
      EntityObj(<<"ip", "port", "name">>, GoodIp, GoodPort),
      EntityObj(<<"ip", "port">>, GoodIp, JStr("27015")),
      EntityObj(<<"ip", "port">>, JInt(167772161), GoodPort),
      EntityObj(<<"ip", "port">>, JStr("example.org"), GoodPort),
      EntityStr }

(***************************************************************************)
(* Raw text frames.  text says what json.loads does with the frame:        *)
(*   "invalid"  not JSON, json.loads raises ValueError                     *)
(*   "deep"     JSON arrays nested past the interpreter's recursion limit, *)
(*              json.loads raises RecursionError (not a ValueError)        *)
(*   "array"    decodes to a list                                          *)
(*   "object"   decodes to a dict with the members keys; type and entity   *)
(*              are the values of those members when present               *)
(***************************************************************************)
NoEntity == EntityStr
Frame(tx, ks, ty, en) == [text |-> tx, keys |-> ks, type |-> ty, entity |-> en]

Frames ==
    { Frame("invalid", {}, JNull, NoEntity),
      Frame("deep", {}, JNull, NoEntity),
      Frame("array", {}, JNull, NoEntity),
      Frame("object", {"entity"}, JNull, GoodEntity),
      Frame("object", {"type"}, JStr("subscribe"), NoEntity),
      Frame("object", {"type", "entity"}, JInt(7), GoodEntity),
      Frame("object", {"type", "entity", "id"}, JStr("subscribe"), GoodEntity),
      Frame("object", {"type", "entity"}, JStr("unsubscribe"), GoodEntity) }
    \cup { Frame("object", {"type", "entity"}, JStr("subscribe"), e) : e \in Entities }

\* the value recv() yields when the peer has disconnected (None)
NoData == Frame("none", {}, JNull, NoEntity)


(***************************************************************************)
(* Outbound envelopes.  send() serialises {"type": str(type_), "entity":   *)
(* entity}; the entity of an error envelope is str(exc), a prefix naming   *)
(* the failed stage followed by the detail.                                *)
(***************************************************************************)
Envelope(type_, entity) == [type |-> type_, entity |-> entity]
ErrorText(stage, detail) == [stage |-> stage, detail |-> detail]
ExternalEnvelopes == { Envelope("status", ErrorText("update", "")) }

(***************************************************************************)
(* serverstf.cache.Address(ip, port): not among the sources; the data      *)
(* model makes it {ip: IP-address, port: uint16}.  The constructor raises  *)
(* ValueError unless ip parses as an IP address and port is an integer.    *)
(***************************************************************************)
ParseableIps == {"10.0.0.1", "10.0.0.2"}
AddressNew(ip, port) ==
    IF ip.t = "str" /\ ip.s \in ParseableIps /\ port.t = "int" /\ port.n \in 0..65535
    THEN [exc |-> "none", ip |-> ip.s, port |-> port.n]
    ELSE [exc |-> "ValueError", ip |-> "", port |-> 0]

\* websocket.address: the inner schema (both members required, no others,
\* ip a str and port an int), then Address(*validated.values()): the
\* arguments are passed in the dict's iteration order.
address(value) ==
    IF /\ value.t = "obj"
       /\ {value.keys[i] : i \in DOMAIN value.keys} = {"ip", "port"}
       /\ Len(value.keys) = 2
       /\ value.ip.t = "str"
       /\ value.port.t = "int"
    THEN LET a == AddressNew(value[value.keys[1]], value[value.keys[2]])
         IN  IF a.exc = "none" THEN a ELSE [a EXCEPT !.exc = "Invalid"]
    ELSE [exc |-> "Invalid", ip |-> "", port |-> 0]

\* json.loads(raw_message)
json_loads(raw) ==
    CASE raw.text = "invalid" -> "ValueError"
      [] raw.text = "deep" -> "RecursionError"
      [] OTHER -> "none"

\* an envelope schema that lets further members through
EnvelopeSchemaAllowExtra(message) ==
    /\ message.text = "object"
    /\ "type" \in message.keys
    /\ message.type.t = "str"
    /\ "entity" \in message.keys

\* the envelope schema of _dispatch: a dict with exactly the members type
\* (a str) and entity (anything)
EnvelopeSchemaOk(message) ==
    /\ message.text = "object"
    /\ "type" \in message.keys
    /\ message.type.t = "str"
    /\ "entity" \in message.keys
    /\ message.keys \subseteq {"type", "entity"}

\* the message types for which Client has a coroutine method _handle_<type>
Handlers == {"subscribe"}

Raised(exc, stage, detail) == [exc |-> exc, text |-> ErrorText(stage, detail)]
Returned == Raised("none", "", "")

\* validate(address) around _handle_subscribe
_handle_subscribe(entity) ==
    IF address(entity).exc = "Invalid"
    THEN Raised("MessageError", "Entity", "")
    ELSE Returned

\* Client._dispatch: what the call raises, if anything
_dispatch(raw_message) ==
    CASE json_loads(raw_message) = "ValueError" -> Raised("MessageError", "JSON", "")
      [] json_loads(raw_message) = "RecursionError" -> Raised("RecursionError", "", "")
      [] OTHER ->
            IF ~EnvelopeSchemaOk(raw_message)
            THEN Raised("MessageError", "Envelope", "")
            ELSE IF raw_message.type.s \notin Handlers
            THEN Raised("MessageError", "Unknown message type", raw_message.type.s)
            ELSE _handle_subscribe(raw_message.entity)


(***************************************************************************)
(* State.                                                                  *)
(***************************************************************************)
VARIABLES
    \* ---- websocket service, per connection ----
    svc,            \* position of Service.__call__: idle, dropped, processing, closed
    rd,             \* the task running Client._read: none, created, recv, returned,
                    \* cancelled
    wr,             \* the task running Client._write: none, created, get, send, failed,
                    \* cancelled
    cancelReq,      \* tasks on which cancel() was called while pending, not yet delivered
    sendq,          \* Client._send_queue
    inflight,       \* the message _write took and has not yet written
    wire,           \* messages written to the transport, in order
    subscriptions,  \* Client._subscriptions
    \* ---- websocket service, history ----
    enq,            \* every message send() has put on the queue, in order
    last,           \* if the step just taken was a turn of _read: the connection,
                    \* whether recv() yielded a frame, and what _dispatch raised
    crashed,        \* a dispatch on this connection raised other than MessageError
    ninputs,        \* frames received and external send() calls so far
    offences,       \* str(exc) of each frame _dispatch rejected, in receive order
    \* ---- websocket service, the command ----
    wsmain          \* position of _websocket_main: start, entered, forever

svars == << svc, rd, wr, cancelReq, sendq, inflight, wire, subscriptions,
            enq, last, crashed, ninputs, offences, wsmain >>

(***************************************************************************)
(* The poller (serverstf/poll.py).                                         *)
(***************************************************************************)
VARIABLES
    pc,         \* position of the poller process
    all_,       \* args.all
    geoip,      \* the local geoip of _poller_main: unbound, open, closed
    nconn,      \* cache connections opened so far
    r_cache,    \* the connection _watch reads addresses from (0: not opened)
    w_cache,    \* the connection _watch writes updates to (0: not opened)
    iqueue,     \* the interest queue in the cache
    cached,     \* the addresses that have a status in the cache
    iter,       \* the iterator of the for loop of _watch
    cur,        \* the address being polled
    info,       \* response of get_info()
    players,    \* response of get_players()
    tags,       \* result of tagger.evaluate
    status,     \* the Status poll() returned
    exitExc,    \* the exception _poller_main ended with
    \* ---- history ----
    ops,        \* the cache operations issued, as <<connection, operation>>
    lastSet,    \* the set() issued for the current address
    nset,       \* set() calls since the current address was drawn
    outcome,    \* how the poll of the current address ended
    qfail,      \* the sub-query that failed for the current address, and how
    drainStart, \* the interest queue when the current drain started
    yielded,    \* the addresses the current drain has yielded
    ndrain,     \* drains ended so far, counted up to MaxDrains
    prevDrain,  \* what the drain before the current one yielded
    calls,      \* the calls made since the for loop last asked for an address
    nproduced,  \* addresses pushed by the producer
    fresh       \* the producer has not pushed since the current drain started

pvars == << pc, all_, geoip, nconn, r_cache, w_cache, iqueue, cached, iter, cur,
            info, players, tags, status, exitExc,
            ops, lastSet, nset, outcome, qfail, drainStart, yielded, ndrain, prevDrain,
            calls, nproduced, fresh >>

vars == << svars, pvars >>

\* Service.PATH
PATH == "/"
Paths == {"/", "/ws"}

NoLast == [conn |-> 0, got |-> "nothing", exc |-> "none"]

InitSessions ==
    /\ svc = [c \in Conns |-> "idle"]
    /\ rd = [c \in Conns |-> "none"]
    /\ wr = [c \in Conns |-> "none"]
    /\ cancelReq = [c \in Conns |-> {}]
    /\ sendq = [c \in Conns |-> << >>]
    /\ inflight = [c \in Conns |-> << >>]
    /\ wire = [c \in Conns |-> << >>]
    /\ subscriptions = [c \in Conns |-> << >>]
    /\ enq = [c \in Conns |-> << >>]
    /\ last = NoLast
    /\ crashed = [c \in Conns |-> FALSE]
    /\ ninputs = 0
    /\ offences = [c \in Conns |-> << >>]
    /\ wsmain = "start"

ReadDone(c) == rd[c] \in {"returned", "cancelled"}
WriteDone(c) == wr[c] \in {"failed", "cancelled"}

\* The session states of the engine: OPEN while process() waits with both
\* duties unfinished, CLOSING once a duty has finished and process() has not
\* yet resumed, CLOSED once process() has returned.
SessionState(c) ==
    CASE svc[c] = "processing" /\ ~ReadDone(c) /\ ~WriteDone(c) -> "OPEN"
      [] svc[c] = "processing" -> "CLOSING"
      [] svc[c] = "closed" -> "CLOSED"
      [] OTHER -> "NONE"

(***************************************************************************)
(* _websocket_main and _websocket_async_main.  run_until_complete drives   *)
(* the coroutine: AsyncCache.connect is awaited and its context entered;   *)
(* websockets.serve is awaited, it returns once the server listens; the    *)
(* with block is then left, the coroutine returns and run_forever() runs   *)
(* the loop that serves the connections.  A connection's handler is called *)
(* after its opening handshake, which takes turns of the loop that come    *)
(* after the coroutine has returned.                                       *)
(***************************************************************************)
\* the cache context of _websocket_async_main: none, entered, exited
CacheContext(m) ==
    CASE m = "start" -> "none"
      [] m = "entered" -> "entered"
      [] OTHER -> "exited"

\* the server accepts connections once websockets.serve has returned
Listening(m) == m = "forever"

\* AsyncCache.connect completes and the with block is entered
WsConnect ==
    /\ wsmain = "start"
    /\ wsmain' = "entered"
    /\ UNCHANGED << pvars, svc, rd, wr, cancelReq, sendq, inflight, wire,
                    subscriptions, enq, last, crashed, ninputs, offences >>

\* websockets.serve returns, the with block is left, run_forever() starts
WsServe ==
    /\ wsmain = "entered"
    /\ wsmain' = "forever"
    /\ UNCHANGED << pvars, svc, rd, wr, cancelReq, sendq, inflight, wire,
                    subscriptions, enq, last, crashed, ninputs, offences >>

(***************************************************************************)
(* Service.__call__ up to the first suspension of process(): a connection  *)
(* on another path is dropped; otherwise a Client is built and             *)
(* asyncio.wait makes the two tasks and suspends.  The tasks have not run  *)
(* yet: each takes its first step in a callback of its own, and callbacks  *)
(* of other connections and callers of send() may run before them.         *)
(***************************************************************************)
\* a handler that takes a connection on any path
PathAcceptedAny(path) == TRUE

PathAccepted(path) == path = PATH

\* a server that awaits the handler of a connection before it takes the next
AcceptOneAtATime(c, path) ==
    /\ UNCHANGED << pvars, wsmain, offences >>
    /\ Listening(wsmain)
    /\ svc[c] = "idle"
    /\ \A d \in Conns : d < c => svc[d] # "idle"
    /\ \A d \in Conns : svc[d] # "processing"
    /\ IF PathAccepted(path)
       THEN /\ svc' = [svc EXCEPT ![c] = "processing"]
            /\ rd' = [rd EXCEPT ![c] = "created"]
            /\ wr' = [wr EXCEPT ![c] = "created"]
       ELSE /\ svc' = [svc EXCEPT ![c] = "dropped"]
            /\ UNCHANGED << rd, wr >>
    /\ last' = NoLast
    /\ UNCHANGED << cancelReq, sendq, inflight, wire, subscriptions,
                    enq, crashed, ninputs >>

Accept(c, path) ==
    /\ UNCHANGED << pvars, wsmain, offences >>
    /\ Listening(wsmain)
    /\ svc[c] = "idle"
    /\ \A d \in Conns : d < c => svc[d] # "idle"
    /\ IF PathAccepted(path)
       THEN /\ svc' = [svc EXCEPT ![c] = "processing"]
            /\ rd' = [rd EXCEPT ![c] = "created"]
            /\ wr' = [wr EXCEPT ![c] = "created"]
       ELSE /\ svc' = [svc EXCEPT ![c] = "dropped"]
            /\ UNCHANGED << rd, wr >>
    /\ last' = NoLast
    /\ UNCHANGED << cancelReq, sendq, inflight, wire, subscriptions,
                    enq, crashed, ninputs >>

\* both tasks of the connection have taken their first step.  The loop runs
\* its callbacks in the order they were scheduled, and the first steps were
\* scheduled when the tasks were made, so they come before any later step of
\* either task.
Started(c) == rd[c] # "created" /\ wr[c] # "created"

\* the first step of the task running _read: it runs up to recv()
ReadStart(c) ==
    /\ UNCHANGED << pvars, wsmain, offences >>
    /\ last' = NoLast
    /\ rd[c] = "created"
    /\ rd' = [rd EXCEPT ![c] = "recv"]
    /\ UNCHANGED << svc, wr, cancelReq, sendq, inflight, wire, subscriptions,
                    enq, crashed, ninputs >>

(***************************************************************************)
(* Client.send: json.dumps of the envelope, put on the unbounded queue.    *)
(***************************************************************************)
\* a send() that puts the envelope at the head of the queue
sendFirst(q, type_, entity) == << Envelope(type_, entity) >> \o q

\* a send() that drops the envelope when another is still queued
sendUnlessQueued(q, type_, entity) ==
    IF q # << >> THEN q ELSE Append(q, Envelope(type_, entity))

send(q, type_, entity) == Append(q, Envelope(type_, entity))

\* a queue built with maxsize=1: put() waits while an item is queued
SendReadyBounded(q) == Len(q) < 1

\* whether put() completes without suspending: _send_queue is built with no
\* maxsize, so it always does
SendReady(q) == TRUE

\* a caller other than the read duty (the fan-out the protocol implies)
ExternalSend(c, m) ==
    /\ UNCHANGED << pvars, wsmain, offences >>
    /\ svc[c] = "processing"
    /\ ninputs < MaxInputs
    /\ SendReady(sendq[c])
    /\ sendq' = [sendq EXCEPT ![c] = send(sendq[c], m.type, m.entity)]
    /\ enq' = [enq EXCEPT ![c] = Append(enq[c], m)]
    /\ ninputs' = ninputs + 1
    /\ last' = NoLast
    /\ UNCHANGED << svc, rd, wr, cancelReq, inflight, wire, subscriptions,
                    crashed >>

(***************************************************************************)
(* Client._read, one turn of its loop: recv() completes; None ends the     *)
(* task; otherwise _dispatch runs (it never suspends), a MessageError is    *)
(* answered with an error envelope, any other exception is only logged,    *)
(* and the loop goes back to recv().                                       *)
(***************************************************************************)
\* a _read whose loop an unexpected exception of _dispatch ends
ReadAfterUncaught(r, exc) ==
    IF r = NoData \/ exc \notin {"none", "MessageError"} THEN "returned" ELSE "recv"

\* where _read stands after the turn: r is what recv() yielded, exc what
\* _dispatch raised
ReadAfter(r, exc) == IF r = NoData THEN "returned" ELSE "recv"

\* the envelopes the turn sends: the error reply to a MessageError
ReadReply(r) ==
    IF r # NoData /\ _dispatch(r).exc = "MessageError"
    THEN << Envelope("error", _dispatch(r).text) >>
    ELSE << >>

\* the queue after send() of each of the envelopes ms
RECURSIVE SendAll(_, _)
SendAll(q, ms) ==
    IF ms = << >> THEN q
    ELSE SendAll(send(q, Head(ms).type, Head(ms).entity), Tail(ms))

Read(c, r) ==
    /\ rd[c] = "recv"
    /\ Started(c)
    /\ "read" \notin cancelReq[c]
    /\ r # NoData => ninputs < MaxInputs
    /\ ReadReply(r) # << >> => SendReady(sendq[c])
    /\ LET exc == IF r = NoData THEN "none" ELSE _dispatch(r).exc
       IN  /\ rd' = [rd EXCEPT ![c] = ReadAfter(r, exc)]
           /\ sendq' = [sendq EXCEPT ![c] = SendAll(sendq[c], ReadReply(r))]
           /\ enq' = [enq EXCEPT ![c] = enq[c] \o ReadReply(r)]
           /\ last' = [conn |-> c, got |-> IF r = NoData THEN "None" ELSE "frame",
                       exc |-> exc]
           /\ crashed' = [crashed EXCEPT ![c] =
                            crashed[c] \/ exc \notin {"none", "MessageError"}]
           /\ offences' = [offences EXCEPT ![c] =
                             IF exc = "MessageError"
                             THEN Append(offences[c], _dispatch(r).text)
                             ELSE offences[c]]
    /\ ninputs' = IF r = NoData THEN ninputs ELSE ninputs + 1
    /\ UNCHANGED << svc, wr, cancelReq, inflight, wire, subscriptions >>
    /\ UNCHANGED << pvars, wsmain >>

(***************************************************************************)
(* Client._write: get() takes the head of the queue (suspending while it   *)
(* is empty), websocket.send() writes it; an exception of the transport    *)
(* ends the task.  get() on a queue that holds an item returns at once, so *)
(* the step in which a write completes also takes the next queued message  *)
(* and starts writing it; the task waits in get() only on an empty queue,  *)
(* and is resumed in a step of its own after a put.                        *)
(***************************************************************************)
QueueGet(q) == [item |-> Head(q), rest |-> Tail(q)]

\* the first step of the task running _write: get() suspends on an empty
\* queue; an item queued before the task ran is taken at once and the task
\* goes on to websocket.send()
WriteStart(c) ==
    /\ UNCHANGED << pvars, wsmain, offences >>
    /\ last' = NoLast
    /\ wr[c] = "created"
    /\ IF sendq[c] = << >>
       THEN /\ wr' = [wr EXCEPT ![c] = "get"]
            /\ UNCHANGED << sendq, inflight >>
       ELSE /\ inflight' = [inflight EXCEPT ![c] = << QueueGet(sendq[c]).item >>]
            /\ sendq' = [sendq EXCEPT ![c] = QueueGet(sendq[c]).rest]
            /\ wr' = [wr EXCEPT ![c] = "send"]
    /\ UNCHANGED << svc, rd, cancelReq, wire, subscriptions,
                    enq, crashed, ninputs >>

\* _write, suspended in get() on the empty queue, is resumed after a put
WriteTake(c) ==
    /\ UNCHANGED << pvars, wsmain, offences >>
    /\ last' = NoLast
    /\ wr[c] = "get"
    /\ Started(c)
    /\ "write" \notin cancelReq[c]
    /\ sendq[c] # << >>
    /\ inflight' = [inflight EXCEPT ![c] = << QueueGet(sendq[c]).item >>]
    /\ sendq' = [sendq EXCEPT ![c] = QueueGet(sendq[c]).rest]
    /\ wr' = [wr EXCEPT ![c] = "send"]
    /\ UNCHANGED << svc, rd, cancelReq, wire, subscriptions,
                    enq, crashed, ninputs >>

WriteSend(c) ==
    /\ UNCHANGED << pvars, wsmain, offences >>
    /\ last' = NoLast
    /\ wr[c] = "send"
    /\ Started(c)
    /\ "write" \notin cancelReq[c]
    /\ wire' = [wire EXCEPT ![c] = Append(wire[c], inflight[c][1])]
    /\ IF sendq[c] = << >>
       THEN /\ inflight' = [inflight EXCEPT ![c] = << >>]
            /\ wr' = [wr EXCEPT ![c] = "get"]
            /\ UNCHANGED sendq
       ELSE /\ inflight' = [inflight EXCEPT ![c] = << QueueGet(sendq[c]).item >>]
            /\ sendq' = [sendq EXCEPT ![c] = QueueGet(sendq[c]).rest]
            /\ wr' = [wr EXCEPT ![c] = "send"]
    /\ UNCHANGED << svc, rd, cancelReq, subscriptions,
                    enq, crashed, ninputs >>

WriteFail(c) ==
    /\ UNCHANGED << pvars, wsmain, offences >>
    /\ last' = NoLast
    /\ wr[c] = "send"
    /\ Started(c)
    /\ "write" \notin cancelReq[c]
    /\ inflight' = [inflight EXCEPT ![c] = << >>]
    /\ wr' = [wr EXCEPT ![c] = "failed"]
    /\ UNCHANGED << svc, rd, cancelReq, sendq, wire, subscriptions,
                    enq, crashed, ninputs >>

(***************************************************************************)
(* Client.process after asyncio.wait(FIRST_COMPLETED) returns: cancel()    *)
(* on every task, result() on every task (InvalidStateError of a task      *)
(* still pending is passed over, other exceptions are logged), return;     *)
(* Service.__call__ then returns too.  cancel() on a pending task only     *)
(* requests the cancellation: the loop raises CancelledError in the task   *)
(* at its suspension point when it next schedules it.                      *)
(***************************************************************************)
\* a wait that returns when both tasks are done (ALL_COMPLETED)
AllCompleted(r, w) == r \in {"returned", "cancelled"} /\ w \in {"failed", "cancelled"}

FirstCompleted(r, w) == r \in {"returned", "cancelled"} \/ w \in {"failed", "cancelled"}

\* a process() that cancels nothing
CancelNone(r, w) == {}

\* the tasks whose cancel() takes effect: those still pending
CancelTargets(r, w) ==
    (IF r \in {"created", "recv"} THEN {"read"} ELSE {})
        \cup (IF w \in {"created", "get", "send"} THEN {"write"} ELSE {})

\* process() returns without waiting for the cancelled tasks
ProcessAfterCancel(r, w) == "closed"

ProcessResume(c) ==
    /\ UNCHANGED << pvars, wsmain, offences >>
    /\ last' = NoLast
    /\ svc[c] = "processing"
    /\ FirstCompleted(rd[c], wr[c])
    /\ cancelReq' = [cancelReq EXCEPT ![c] = CancelTargets(rd[c], wr[c])]
    /\ svc' = [svc EXCEPT ![c] = ProcessAfterCancel(rd[c], wr[c])]
    /\ UNCHANGED << rd, wr, sendq, inflight, wire, subscriptions,
                    enq, crashed, ninputs >>

\* the event loop delivers a requested cancellation
Cancelled(c, task) ==
    /\ UNCHANGED << pvars, wsmain, offences >>
    /\ last' = NoLast
    /\ task \in cancelReq[c]
    /\ cancelReq' = [cancelReq EXCEPT ![c] = cancelReq[c] \ {task}]
    /\ IF task = "read"
       THEN rd' = [rd EXCEPT ![c] = "cancelled"] /\ UNCHANGED wr
       ELSE wr' = [wr EXCEPT ![c] = "cancelled"] /\ UNCHANGED rd
    /\ UNCHANGED << svc, sendq, inflight, wire, subscriptions,
                    enq, crashed, ninputs >>

\* the steps of the service when the connections S are offered to it
SessionNextOn(S) ==
    \/ WsConnect
    \/ WsServe
    \/ \E c \in S, path \in Paths : Accept(c, path)
    \/ \E c \in S, m \in ExternalEnvelopes : ExternalSend(c, m)
    \/ \E c \in S : ReadStart(c)
    \/ \E c \in S : WriteStart(c)
    \/ \E c \in S, r \in Frames \cup {NoData} : Read(c, r)
    \/ \E c \in S : WriteTake(c)
    \/ \E c \in S : WriteSend(c)
    \/ \E c \in S : WriteFail(c)
    \/ \E c \in S : ProcessResume(c)
    \/ \E c \in S, task \in {"read", "write"} : Cancelled(c, task)

SessionNext == SessionNextOn(Conns)



Addr(ip, port) == [ip |-> ip, port |-> port]
Addrs == { Addr("10.0.0.1", 27015), Addr("10.0.0.2", 27015) }
NoAddr == Addr("", 0)

\* all sequences over S of length at most n
RECURSIVE SeqsUpTo(_, _)
SeqsUpTo(S, n) ==
    IF n = 0 THEN { << >> }
    ELSE LET shorter == SeqsUpTo(S, n - 1)
         IN  shorter \cup { Append(q, x) : q \in shorter, x \in S }

(***************************************************************************)
(* Responses of the three A2S queries.  A duration is a number of seconds  *)
(* on the wire; here it is counted in milliseconds.                        *)
(***************************************************************************)
Infos ==
    { [player_count |-> 1, max_players |-> 24, bot_count |-> 0,
       server_name |-> "srv", map |-> "cp_well", app_id |-> 440],
      [player_count |-> 3, max_players |-> 3, bot_count |-> 1,
       server_name |-> "srv", map |-> "cp_well", app_id |-> 440] }
NoInfo == [player_count |-> 0, max_players |-> 0, bot_count |-> 0,
           server_name |-> "", map |-> "", app_id |-> 0]

PlayerEntry(name, score, ms) == [name |-> name, score |-> score, duration |-> ms]
Joining == PlayerEntry("", 0, 0)
Bob == PlayerEntry("Bob", 5, 90000)
Al == PlayerEntry("Al", -1, 86401500)
PlayerLists ==
    { << >>, << Bob >>, << Joining >>, << Joining, Bob >>, << Bob, Al >>,
      << Al, Joining, Bob >>, << Joining, Joining >> }

QueryErrors == {"NoResponseError", "NotImplementedError", "BrokenMessageError"}

\* results of tagger.evaluate and geoip.city (external collaborators)
TagSets == { {"tf2"} }
Locations == { [country |-> "GB", latitude |-> 51, longitude |-> 0] }
NoLocation == [country |-> "", latitude |-> 0, longitude |-> 0]

(***************************************************************************)
(* poll(): the Status built from the responses (lines 92 to 116).          *)
(***************************************************************************)
\* datetime.timedelta(seconds=...), normalised to days, seconds, microseconds
timedelta(ms) ==
    [days |-> ms \div 86400000,
     seconds |-> (ms % 86400000) \div 1000,
     microseconds |-> (ms % 1000) * 1000]

\* a loop that keeps the entries without a name
KeepsEveryEntry(entry) == TRUE

\* whether the loop keeps an entry of the players response
KeepsEntry(entry) == entry.name # ""

ScoreOf(entry) ==
    [name |-> entry.name, score |-> entry.score, duration |-> timedelta(entry.duration)]

\* the loop over players["players"]
RECURSIVE Scores(_)
Scores(entries) ==
    IF entries = << >> THEN << >>
    ELSE IF KeepsEntry(Head(entries))
         THEN << ScoreOf(Head(entries)) >> \o Scores(Tail(entries))
         ELSE Scores(Tail(entries))

PlayersStatus(i, p) ==
    [current |-> i.player_count, max |-> i.max_players, bots |-> i.bot_count,
     scores |-> Scores(p)]

Status(a, i, p, t, loc) ==
    [address |-> a, interest |-> "None", name |-> i.server_name, map |-> i.map,
     application_id |-> i.app_id, players |-> PlayersStatus(i, p),
     country |-> loc.country, latitude |-> loc.latitude, longitude |-> loc.longitude,
     tags |-> t]
NoStatus == Status(NoAddr, NoInfo, << >>, {}, NoLocation)

NoSet == [session |-> 0, status |-> NoStatus]
NoFail == [query |-> "none", error |-> "none"]
NoIter == [kind |-> "none", rest |-> << >>, held |-> NoAddr]


PollerInit ==
    /\ pc = "main"
    /\ all_ \in BOOLEAN
    /\ geoip = "unbound"
    /\ nconn = 0
    /\ r_cache = 0
    /\ w_cache = 0
    \* the interest mode never reads the cached addresses, the exhaustive
    \* mode never reads the interest queue
    /\ iqueue \in IF all_ THEN { << >> } ELSE SeqsUpTo(Addrs, MaxQueue)
    /\ cached \in IF all_ THEN SUBSET Addrs ELSE { {} }
    /\ iter = NoIter
    /\ cur = NoAddr
    /\ info = NoInfo
    /\ players = << >>
    /\ tags = {}
    /\ status = NoStatus
    /\ exitExc = "none"
    /\ ops = {}
    /\ lastSet = NoSet
    /\ nset = 0
    /\ outcome = "none"
    /\ qfail = NoFail
    /\ drainStart = << >>
    /\ yielded = << >>
    /\ ndrain = 0
    /\ prevDrain = << >>
    /\ calls = << >>
    /\ nproduced = 0
    /\ fresh = TRUE

\* the poller process is not running
PollerOff ==
    /\ pc = "off"
    /\ all_ = FALSE
    /\ geoip = "unbound"
    /\ nconn = 0
    /\ r_cache = 0
    /\ w_cache = 0
    /\ iqueue = << >>
    /\ cached = {}
    /\ iter = NoIter
    /\ cur = NoAddr
    /\ info = NoInfo
    /\ players = << >>
    /\ tags = {}
    /\ status = NoStatus
    /\ exitExc = "none"
    /\ ops = {}
    /\ lastSet = NoSet
    /\ nset = 0
    /\ outcome = "none"
    /\ qfail = NoFail
    /\ drainStart = << >>
    /\ yielded = << >>
    /\ ndrain = 0
    /\ prevDrain = << >>
    /\ calls = << >>
    /\ nproduced = 0
    /\ fresh = TRUE

(***************************************************************************)
(* _poller_main.                                                           *)
(***************************************************************************)
\* the finally clause, geoip.close(): with geoip never bound the name lookup
\* raises UnboundLocalError, which replaces the exception in flight
FinallyClose(bound, exc) == IF bound THEN exc ELSE "UnboundLocalError"

\* what the except clause of _poller_main raises for an exception of the try
PollerMainExcept(exc) == IF exc = "InvalidDatabaseError" THEN "FatalError" ELSE exc

\* an exception leaves _poller_main
Exit(exc) ==
    /\ pc' = "exited"
    /\ exitExc' = FinallyClose(geoip = "open", exc)
    /\ geoip' = IF geoip = "open" THEN "closed" ELSE geoip

\* geoip2.database.Reader(str(args.geoip))
OpenGeoip(exc) ==
    /\ UNCHANGED << svars, calls >>
    /\ pc = "main"
    /\ IF exc = "none"
       THEN /\ geoip' = "open"
            /\ pc' = "connect_r"
            /\ UNCHANGED exitExc
       ELSE Exit(PollerMainExcept(exc))
    /\ UNCHANGED << all_, nconn, r_cache, w_cache, iqueue, cached, iter, cur,
                    info, players, tags, status,
                    ops, lastSet, nset, outcome, qfail, drainStart, yielded, ndrain, prevDrain,
                    nproduced, fresh >>

\* serverstf.cache.Cache.connect: every call opens a connection of its own
Connect(n) == n + 1

ConnectR ==
    /\ UNCHANGED << svars, calls >>
    /\ pc = "connect_r"
    /\ nconn' = Connect(nconn)
    /\ r_cache' = nconn'
    /\ pc' = "connect_w"
    /\ UNCHANGED << all_, geoip, w_cache, iqueue, cached, iter, cur,
                    info, players, tags, status, exitExc,
                    ops, lastSet, nset, outcome, qfail, drainStart, yielded, ndrain, prevDrain,
                    nproduced, fresh >>

\* the second connect, and _watch up to its while loop
ConnectW ==
    /\ UNCHANGED << svars, calls >>
    /\ pc = "connect_w"
    /\ nconn' = Connect(nconn)
    /\ w_cache' = nconn'
    /\ pc' = "loop"
    /\ UNCHANGED << all_, geoip, r_cache, iqueue, cached, iter, cur,
                    info, players, tags, status, exitExc,
                    ops, lastSet, nset, outcome, qfail, drainStart, yielded, ndrain, prevDrain,
                    nproduced, fresh >>

(***************************************************************************)
(* _watch.                                                                 *)
(***************************************************************************)
\* the connection _watch takes addresses from, and the one it calls set() on
ReadSession(r, w) == r
\* a _watch that calls set() on the connection it reads from
WriteOnReadSession(r, w) == r
WriteSession(r, w) == w

\* Cache.all_iterator(): every address now in the cache, once each, in the
\* order the store scans them
Enumerations(S) ==
    { q \in SeqsUpTo(S, Cardinality(S)) :
        Len(q) = Cardinality(S) /\ { q[i] : i \in DOMAIN q } = S }

\* the top of the while loop: the iterator of this round
Loop ==
    /\ UNCHANGED << svars, calls >>
    /\ pc = "loop"
    /\ IF all_
       THEN /\ \E q \in Enumerations(cached) :
                  iter' = [kind |-> "all", rest |-> q, held |-> NoAddr]
            /\ ops' = ops \cup { << ReadSession(r_cache, w_cache), "all_iterator" >> }
       ELSE /\ iter' = [kind |-> "interest", rest |-> << >>, held |-> NoAddr]
            /\ UNCHANGED ops
    /\ drainStart' = iqueue
    /\ prevDrain' = yielded
    /\ yielded' = << >>
    /\ fresh' = TRUE
    /\ pc' = "next"
    /\ UNCHANGED << all_, geoip, nconn, r_cache, w_cache, iqueue, cached, cur,
                    info, players, tags, status, exitExc,
                    lastSet, nset, outcome, qfail, ndrain, nproduced >>

\* Cache.interesting_context(): entering pops the head of the interest queue
\* and removes it, or raises EmptyQueueError
InterestingPop(q) ==
    IF q = << >>
    THEN [exc |-> "EmptyQueueError", address |-> NoAddr, rest |-> q]
    ELSE [exc |-> "none", address |-> Head(q), rest |-> Tail(q)]

\* an iterator that lets EmptyQueueError out
IteratorLetsOut(exc) == exc

\* _interest_queue_iterator on EmptyQueueError: the generator returns
IteratorOnEmpty(exc) == IF exc = "EmptyQueueError" THEN "StopIteration" ELSE exc

\* the drain counter, which stops at MaxDrains
Counted(n) == IF n < MaxDrains THEN n + 1 ELSE n

\* a loop that asks for the next address before the Status is written
DrawsBeforeSet(p) == p \in {"next", "set"}

\* where the for loop asks for the next address: after the body of the
\* previous iteration (try, except, else) has run
DrawsAt(p) == p = "next"

\* the for loop asks the iterator for the next address.  The interest
\* generator resumes after its yield: the with block of the previous address
\* is left, the next interesting_context() is entered.
Next_ ==
    /\ UNCHANGED svars
    /\ DrawsAt(pc)
    /\ calls' = IF iter.kind = "interest"
                THEN (IF iter.held # NoAddr THEN << "exit" >> ELSE << >>) \o << "enter" >>
                ELSE << "next" >>
    /\ IF iter.kind = "interest"
       THEN LET got == InterestingPop(iqueue)
            IN  /\ ops' = ops \cup { << ReadSession(r_cache, w_cache), "pop" >> }
                /\ iqueue' = got.rest
                /\ IF got.exc = "none"
                   THEN /\ iter' = [iter EXCEPT !.held = got.address]
                        /\ cur' = got.address
                        /\ yielded' = Append(yielded, got.address)
                        /\ pc' = "info"
                        /\ UNCHANGED << ndrain, exitExc, geoip >>
                   ELSE /\ iter' = [iter EXCEPT !.held = NoAddr]
                        /\ cur' = NoAddr
                        /\ UNCHANGED yielded
                        /\ IF IteratorOnEmpty(got.exc) = "StopIteration"
                           THEN /\ pc' = "loop"
                                /\ ndrain' = Counted(ndrain)
                                /\ UNCHANGED << exitExc, geoip >>
                           ELSE /\ Exit(got.exc)
                                /\ UNCHANGED ndrain
       ELSE /\ UNCHANGED << ops, iqueue, yielded, exitExc, geoip >>
            /\ IF iter.rest # << >>
               THEN /\ iter' = [iter EXCEPT !.rest = Tail(iter.rest)]
                    /\ cur' = Head(iter.rest)
                    /\ pc' = "info"
                    /\ UNCHANGED ndrain
               ELSE /\ cur' = NoAddr
                    /\ pc' = "loop"
                    /\ ndrain' = Counted(ndrain)
                    /\ UNCHANGED iter
    /\ info' = NoInfo
    /\ players' = << >>
    /\ tags' = {}
    /\ status' = NoStatus
    /\ lastSet' = NoSet
    /\ nset' = 0
    /\ outcome' = "none"
    /\ qfail' = NoFail
    /\ UNCHANGED << all_, nconn, r_cache, w_cache, cached, drainStart, prevDrain,
                    nproduced, fresh >>


(***************************************************************************)
(* poll() and _query_server(), one action per call they make.              *)
(***************************************************************************)
\* the exceptions _query_server turns into PollError
QueryServerCatches == {"NoResponseError", "NotImplementedError", "BrokenMessageError"}
\* a _query_server without the except clause for NotImplementedError
QueryServerRaisesFragments(exc) ==
    IF exc \in {"NoResponseError", "BrokenMessageError"} THEN "PollError" ELSE exc
QueryServerRaises(exc) == IF exc \in QueryServerCatches THEN "PollError" ELSE exc

\* the except clause of the for loop of _watch
WatchCatches(exc) == exc = "PollError"

\* an exception raised while the current address is polled
PollRaises(exc) ==
    IF WatchCatches(exc)
    THEN /\ pc' = "next"
         /\ outcome' = exc
         /\ UNCHANGED << exitExc, geoip >>
    ELSE /\ Exit(exc)
         /\ outcome' = exc

\* a _query_server that does not query the rules
AfterQueryNoRules(q) ==
    CASE q = "info" -> "players"
      [] q = "players" -> "tags"
      [] q = "rules" -> "tags"

\* what follows a successful query: the tuple of line 59 is evaluated left
\* to right, then poll calls the tagger
AfterQuery(q) ==
    CASE q = "info" -> "players"
      [] q = "players" -> "rules"
      [] q = "rules" -> "tags"

\* query.get_info()
QueryInfo(exc, v) ==
    /\ UNCHANGED svars
    /\ calls' = Append(calls, "info")
    /\ pc = "info"
    /\ IF exc = "none"
       THEN /\ info' = v
            /\ pc' = AfterQuery("info")
            /\ UNCHANGED << outcome, qfail, exitExc, geoip >>
       ELSE /\ PollRaises(QueryServerRaises(exc))
            /\ qfail' = [query |-> "info", error |-> exc]
            /\ UNCHANGED info
    /\ UNCHANGED << all_, nconn, r_cache, w_cache, iqueue, cached, iter, cur,
                    players, tags, status,
                    ops, lastSet, nset, drainStart, yielded, ndrain, prevDrain,
                    nproduced, fresh >>

\* query.get_players()
QueryPlayers(exc, v) ==
    /\ UNCHANGED svars
    /\ calls' = Append(calls, "players")
    /\ pc = "players"
    /\ IF exc = "none"
       THEN /\ players' = v
            /\ pc' = AfterQuery("players")
            /\ UNCHANGED << outcome, qfail, exitExc, geoip >>
       ELSE /\ PollRaises(QueryServerRaises(exc))
            /\ qfail' = [query |-> "players", error |-> exc]
            /\ UNCHANGED players
    /\ UNCHANGED << all_, nconn, r_cache, w_cache, iqueue, cached, iter, cur,
                    info, tags, status,
                    ops, lastSet, nset, drainStart, yielded, ndrain, prevDrain,
                    nproduced, fresh >>

\* query.get_rules(); the rules only feed the tagger
QueryRules(exc) ==
    /\ UNCHANGED svars
    /\ calls' = Append(calls, "rules")
    /\ pc = "rules"
    /\ IF exc = "none"
       THEN /\ pc' = AfterQuery("rules")
            /\ UNCHANGED << outcome, qfail, exitExc, geoip >>
       ELSE /\ PollRaises(QueryServerRaises(exc))
            /\ qfail' = [query |-> "rules", error |-> exc]
    /\ UNCHANGED << all_, nconn, r_cache, w_cache, iqueue, cached, iter, cur,
                    info, players, tags, status,
                    ops, lastSet, nset, drainStart, yielded, ndrain, prevDrain,
                    nproduced, fresh >>

\* tagger.evaluate(info, players, rules)
Evaluate(exc, v) ==
    /\ UNCHANGED svars
    /\ calls' = Append(calls, "evaluate")
    /\ pc = "tags"
    /\ IF exc = "none"
       THEN /\ tags' = v
            /\ pc' = "geo"
            /\ UNCHANGED << outcome, exitExc, geoip >>
       ELSE /\ PollRaises(exc)
            /\ UNCHANGED tags
    /\ UNCHANGED << all_, nconn, r_cache, w_cache, iqueue, cached, iter, cur,
                    info, players, status,
                    ops, lastSet, nset, qfail, drainStart, yielded, ndrain, prevDrain,
                    nproduced, fresh >>

\* geoip.city(str(address.ip)), then the Status is built and returned
City(exc, v) ==
    /\ UNCHANGED svars
    /\ calls' = Append(calls, "city")
    /\ pc = "geo"
    /\ IF exc = "none"
       THEN /\ status' = Status(cur, info, players, tags, v)
            /\ pc' = "set"
            /\ outcome' = "polled"
            /\ UNCHANGED << exitExc, geoip >>
       ELSE /\ PollRaises(exc)
            /\ UNCHANGED status
    /\ UNCHANGED << all_, nconn, r_cache, w_cache, iqueue, cached, iter, cur,
                    info, players, tags,
                    ops, lastSet, nset, qfail, drainStart, yielded, ndrain, prevDrain,
                    nproduced, fresh >>

\* the else clause of the for loop: w_cache.set(status)
Set ==
    /\ UNCHANGED svars
    /\ calls' = Append(calls, "set")
    /\ pc = "set"
    /\ ops' = ops \cup { << WriteSession(r_cache, w_cache), "set" >> }
    /\ lastSet' = [session |-> WriteSession(r_cache, w_cache), status |-> status]
    /\ nset' = nset + 1
    /\ cached' = cached \cup { status.address }
    /\ pc' = "next"
    /\ info' = NoInfo
    /\ players' = << >>
    /\ tags' = {}
    /\ UNCHANGED << all_, geoip, nconn, r_cache, w_cache, iqueue, iter, cur, status,
                    exitExc, outcome, qfail, drainStart, yielded, ndrain, prevDrain,
                    nproduced, fresh >>

\* An external producer pushes an address on the interest queue.  The poller
\* looks at the queue only when its for loop asks for the next address, so a
\* push during a poll is a push at the end of that poll; the exhaustive mode
\* never looks at it.
Produce(a) ==
    /\ UNCHANGED << svars, calls >>
    /\ pc \in {"loop", "next"}
    /\ ~all_
    /\ nproduced < MaxProduce
    /\ iqueue' = Append(iqueue, a)
    /\ nproduced' = nproduced + 1
    /\ fresh' = FALSE
    /\ UNCHANGED << pc, all_, geoip, nconn, r_cache, w_cache, cached, iter, cur,
                    info, players, tags, status, exitExc,
                    ops, lastSet, nset, outcome, qfail, drainStart, yielded, ndrain,
                    prevDrain >>

PollNext ==
    \/ \E exc \in {"none", "InvalidDatabaseError"} : OpenGeoip(exc)
    \/ ConnectR
    \/ ConnectW
    \/ Loop
    \/ Next_
    \/ \E exc \in {"none"} \cup QueryErrors, v \in Infos : QueryInfo(exc, v)
    \/ \E exc \in {"none"} \cup QueryErrors, v \in PlayerLists : QueryPlayers(exc, v)
    \/ \E exc \in {"none"} \cup QueryErrors : QueryRules(exc)
    \/ \E exc \in {"none", "TagError"}, v \in TagSets : Evaluate(exc, v)
    \/ \E exc \in {"none", "AddressNotFoundError"}, v \in Locations : City(exc, v)
    \/ Set
    \/ \E a \in Addrs : Produce(a)

(***************************************************************************)
(* Specifications.                                                         *)
(***************************************************************************)
Init == InitSessions /\ PollerInit
Next == SessionNext \/ PollNext
Spec == Init /\ [][Next]_vars

\* the websocket service alone
SessionInit == InitSessions /\ PollerOff
SessionSpec == SessionInit /\ [][SessionNext]_vars

\* the websocket service offered one connection, with a write duty that is
\* scheduled fairly and a transport whose writes complete: the event loop
\* resumes _write when its queue has an item, and a write that can complete
\* does
OneSessionNext == SessionNextOn({1})
SessionFairSpec ==
    /\ SessionInit
    /\ [][OneSessionNext]_vars
    /\ WF_vars(ReadStart(1)) /\ WF_vars(WriteStart(1))
    /\ WF_vars(WriteTake(1)) /\ WF_vars(WriteSend(1))

\* the websocket service offered one connection, with an event loop that runs
\* the callbacks it has scheduled: the completion of asyncio.wait resumes
\* process(), and a cancellation that was requested is delivered to its task
SessionCloseSpec ==
    /\ SessionInit
    /\ [][OneSessionNext]_vars
    /\ WF_vars(ProcessResume(1)) /\ WF_vars(Cancelled(1, "write"))

\* the poller alone
PollInit == InitSessions /\ PollerInit
PollSpec == PollInit /\ [][PollNext]_vars


(***************************************************************************)
(* Properties of the websocket session engine.                             *)
(***************************************************************************)
IsPrefix(p, q) == Len(p) <= Len(q) /\ SubSeq(q, 1, Len(p)) = p

\* the per-connection state of the service is the same before and after
SameConn(d) ==
    /\ svc'[d] = svc[d] /\ rd'[d] = rd[d] /\ wr'[d] = wr[d]
    /\ cancelReq'[d] = cancelReq[d] /\ sendq'[d] = sendq[d]
    /\ inflight'[d] = inflight[d] /\ wire'[d] = wire[d] /\ enq'[d] = enq[d]
    /\ subscriptions'[d] = subscriptions[d] /\ crashed'[d] = crashed[d]
    /\ offences'[d] = offences[d]

\* the four conditions of C1 as the claim words them
IsEnvelope(f) ==
    f.text = "object" /\ "type" \in f.keys /\ f.type.t = "str" /\ "entity" \in f.keys
IsIpPort(e) ==
    /\ e.t = "obj"
    /\ { e.keys[i] : i \in DOMAIN e.keys } = {"ip", "port"}
    /\ e.ip.t = "str"
    /\ e.port.t = "int"
ClaimedRejected(f) ==
    \/ f.text = "invalid"
    \/ ~IsEnvelope(f)
    \/ f.type.s # "subscribe"
    \/ ~IsIpPort(f.entity)

\* C1 as claimed: a frame received while the session is OPEN is answered with
\* an error envelope if and only if it is not valid JSON, or is not an object
\* with a string type and an entity, or names a type without a handler, or
\* carries an entity that is not {ip: string, port: integer}.
C1_AsClaimed ==
    [][\A c \in {last'.conn} \cap Conns, f \in Frames :
          (SessionState(c) = "OPEN" /\ Read(c, f))
              => (enq'[c] # enq[c] <=> ClaimedRejected(f))]_vars

\* the frames _dispatch rejects with MessageError
ExactEnvelope(f) ==
    f.text = "object" /\ f.keys = {"type", "entity"} /\ f.type.t = "str"
Rejected(f) ==
    \/ f.text = "invalid"
    \/ f.text \in {"array", "object"} /\ ~ExactEnvelope(f)
    \/ ExactEnvelope(f) /\ f.type.s # "subscribe"
    \/ ExactEnvelope(f) /\ f.type.s = "subscribe" /\ address(f.entity).exc = "Invalid"

\* C1 (amended): a frame received while the session is OPEN is answered with
\* an error envelope if and only if json.loads raises ValueError on it, or it
\* is not an object with exactly the members type (a string) and entity, or
\* it names a type without a handler, or the handler's validator rejects its
\* entity.  Then exactly one error envelope is put at the tail of the queue;
\* in every case the session stays OPEN, and a frame that is none of these
\* and decodes is dispatched to its handler, whatever was received before.
C1_ErrorReplyIffRejected ==
    [][\A c \in {last'.conn} \cap Conns :
          (SessionState(c) = "OPEN" /\ last'.got = "frame") =>
              \A f \in Frames :
                  \* (the first conjunct follows from Read(c, f))
                  (enq'[c] = enq[c] \o ReadReply(f) /\ Read(c, f)) =>
                      /\ Rejected(f) =>
                            /\ Len(sendq'[c]) = Len(sendq[c]) + 1
                            /\ SubSeq(sendq'[c], 1, Len(sendq[c])) = sendq[c]
                            /\ sendq'[c][Len(sendq'[c])].type = "error"
                            /\ enq'[c] = Append(enq[c], sendq'[c][Len(sendq'[c])])
                      /\ ~Rejected(f) => sendq'[c] = sendq[c] /\ enq'[c] = enq[c]
                      /\ SessionState(c)' = "OPEN"
                      /\ rd'[c] = "recv"
                      /\ (~Rejected(f) /\ f.text # "deep") => last'.exc = "none"]_vars

\* an error envelope was sent for an earlier frame, and the frame just
\* received was dispatched to its handler
C1_Witness ==
    \E c \in Conns :
        /\ last = [conn |-> c, got |-> "frame", exc |-> "none"]
        /\ enq[c] # << >>
        /\ enq[c][1].type = "error"
        /\ SessionState(c) = "OPEN"

\* C3 as claimed: when process() has returned both duties have stopped.
C3_AsClaimed ==
    \A c \in Conns : SessionState(c) = "CLOSED" => ReadDone(c) /\ WriteDone(c)

\* C3 (amended): when a duty has finished the engine requests the
\* cancellation of the one still running and returns without awaiting it: at
\* CLOSED each duty has stopped or has its cancellation pending.  After CLOSED
\* neither duty takes a step other than being cancelled (no receive, no
\* dispatch, no queue take, no transport write) and the session stays CLOSED.
C3_CancelledNotAwaited ==
    [][\A c \in Conns :
          /\ svc'[c] = "closed" =>
                /\ rd'[c] \in {"created", "recv"} => "read" \in cancelReq'[c]
                /\ wr'[c] \in {"created", "get", "send"} => "write" \in cancelReq'[c]
          /\ svc[c] = "closed" =>
                /\ svc'[c] = "closed"
                /\ last'.conn # c
                /\ sendq'[c] = sendq[c] /\ enq'[c] = enq[c]
                /\ inflight'[c] = inflight[c] /\ wire'[c] = wire[c]
                /\ rd'[c] \in {rd[c], "cancelled"}
                /\ wr'[c] \in {wr[c], "cancelled"}
          /\ (svc[c] = "processing" /\ svc'[c] # "processing") =>
                /\ FirstCompleted(rd[c], wr[c])
                /\ svc'[c] = "closed"]_vars

\* process() has returned and the duty it cancelled has not stopped yet
C3_Witness ==
    \E c \in Conns :
        /\ SessionState(c) = "CLOSED"
        /\ wr[c] = "send"
        /\ "write" \in cancelReq[c]

\* C4 as claimed: a session that is CLOSED after recv() yielded None has its
\* write duty cancelled.
C4_AsClaimed ==
    \A c \in Conns :
        (rd[c] = "returned" /\ SessionState(c) = "CLOSED") => wr[c] = "cancelled"

\* C4 (amended): after recv() yielded None the read duty has returned (no
\* error) and the session has left OPEN; the engine can resume whatever the
\* outbound queue holds, and it does: the session goes to CLOSED.  The step
\* that closes it requests the cancellation of the write duty if that is
\* still pending, and writes nothing and takes nothing from the queue.  At
\* CLOSED the write duty is cancelled, or its cancellation is requested and
\* not yet delivered, or it had failed on a transport write of its own before
\* the engine resumed; in the end it is cancelled or failed.
C4_DisconnectCloses ==
    /\ [](\A c \in Conns :
            /\ (last.conn = c /\ last.got = "None") =>
                    rd[c] = "returned" /\ SessionState(c) # "OPEN" /\ last.exc = "none"
            /\ rd[c] = "returned" =>
                    /\ svc[c] \in {"processing", "closed"}
                    /\ svc[c] = "processing" => ENABLED ProcessResume(c)
                    /\ svc[c] = "closed" =>
                          \/ wr[c] = "cancelled"
                          \/ wr[c] \in {"get", "send"} /\ "write" \in cancelReq[c]
                          \/ wr[c] = "failed" /\ "write" \notin cancelReq[c])
    /\ [][\A c \in Conns :
            (rd[c] = "returned" /\ svc[c] = "processing" /\ svc'[c] = "closed") =>
                /\ sendq'[c] = sendq[c] /\ wire'[c] = wire[c]
                /\ inflight'[c] = inflight[c] /\ wr'[c] = wr[c]
                /\ wr[c] \in {"get", "send"} <=> "write" \in cancelReq'[c]]_vars
    /\ \A c \in {1} :
            (rd[c] = "returned") ~>
                (SessionState(c) = "CLOSED" /\ wr[c] \in {"cancelled", "failed"})

\* closed on a disconnect, the write duty cancelled, a message still queued
C4_Witness ==
    \E c \in Conns :
        /\ rd[c] = "returned"
        /\ SessionState(c) = "CLOSED"
        /\ wr[c] = "cancelled"
        /\ sendq[c] # << >>

\* C5 as claimed: after a dispatch raised other than MessageError the session
\* has left OPEN.
C5_AsClaimed ==
    \A c \in Conns : crashed[c] => SessionState(c) # "OPEN"

\* C5 (amended): a dispatch that raises other than MessageError is only
\* logged: nothing is enqueued, the read duty goes back to recv(), the session
\* keeps its state, and no other connection is touched.
C5_UnexpectedFailureOnlyLogged ==
    [][\A c \in Conns :
          (last'.conn = c /\ last'.got = "frame"
                /\ last'.exc \notin {"none", "MessageError"}) =>
              /\ crashed'[c]
              /\ rd'[c] = "recv"
              /\ svc'[c] = svc[c]
              /\ SessionState(c)' = SessionState(c)
              /\ sendq'[c] = sendq[c] /\ enq'[c] = enq[c]
              /\ wr'[c] = wr[c] /\ cancelReq'[c] = cancelReq[c]
              /\ \A d \in Conns \ {c} : SameConn(d)]_vars

\* after an unexpected failure a later frame of the same connection was
\* received and handled, the session still OPEN
C5_Witness ==
    \E c \in Conns :
        /\ crashed[c]
        /\ last = [conn |-> c, got |-> "frame", exc |-> "none"]
        /\ SessionState(c) = "OPEN"

\* C7: the transport writes of a session are a prefix of what send() enqueued;
\* while the write duty has not failed, writes, the message in flight and the
\* queue make up exactly the enqueued sequence.
C7_WritesInEnqueueOrder ==
    \A c \in Conns :
        /\ IsPrefix(wire[c], enq[c])
        /\ wr[c] # "failed" => enq[c] = wire[c] \o inflight[c] \o sendq[c]

\* two different messages were written
C7_Witness ==
    \E c \in Conns : Len(wire[c]) = 2 /\ wire[c][1] # wire[c][2]


\* C11: send() completes in every state of a running session, whatever the
\* write duty is doing and however long the queue is: a caller other than the
\* read duty can always send, also before the duties have taken their first
\* step, and the read duty, once both have, can always receive a frame and
\* enqueue its error reply.  A send appends exactly one envelope to the
\* tail of the queue and touches neither the write duty nor the transport.
C11_SendNeverWaits ==
    /\ [](\A c \in Conns :
            (svc[c] = "processing" /\ ninputs < MaxInputs) =>
                /\ \A m \in ExternalEnvelopes : ENABLED ExternalSend(c, m)
                /\ (rd[c] = "recv" /\ Started(c) /\ "read" \notin cancelReq[c]) =>
                      \A f \in Frames : ENABLED Read(c, f))
    /\ [][\A c \in Conns :
            enq'[c] # enq[c] =>
                /\ Len(enq'[c]) = Len(enq[c]) + 1
                /\ sendq'[c] = Append(sendq[c], enq'[c][Len(enq'[c])])
                /\ wr'[c] = wr[c]
                /\ inflight'[c] = inflight[c]
                /\ wire'[c] = wire[c]]_vars

\* the write duty is suspended in a transport write and the read duty has
\* just enqueued an error reply behind it
C11_Witness ==
    \E c \in Conns :
        /\ wr[c] = "send"
        /\ "write" \notin cancelReq[c]
        /\ inflight[c] # << >>
        /\ last = [conn |-> c, got |-> "frame", exc |-> "MessageError"]
        /\ sendq[c] # << >>
        /\ sendq[c][Len(sendq[c])].type = "error"


\* C12: the handler of a connection on a path other than PATH returns with no
\* session built: no duty is started then or later, no frame of the
\* connection is dispatched, nothing is queued or written for it.  The
\* service goes on: the next connection can be taken, and one on PATH gets a
\* session with its two duties made and due their first step, an empty queue
\* and no subscriptions.
C12_WrongPathGetsNoSession ==
    /\ [][\A c \in Conns, p \in Paths :
            Accept(c, p) =>
                IF p # PATH
                THEN svc'[c] = "dropped" /\ rd'[c] = "none" /\ wr'[c] = "none"
                ELSE /\ svc'[c] = "processing"
                     /\ rd'[c] = "created" /\ wr'[c] = "created"
                     /\ sendq'[c] = << >> /\ subscriptions'[c] = << >>]_vars
    /\ [][\A c \in Conns : svc[c] = "dropped" => svc'[c] = "dropped"]_vars
    /\ [](\A c \in Conns :
            svc[c] = "dropped" =>
                /\ rd[c] = "none" /\ wr[c] = "none" /\ cancelReq[c] = {}
                /\ sendq[c] = << >> /\ inflight[c] = << >> /\ wire[c] = << >>
                /\ enq[c] = << >> /\ offences[c] = << >> /\ ~crashed[c]
                /\ subscriptions[c] = << >>
                /\ last.conn # c
                /\ \A f \in Frames \cup {NoData} : ~ENABLED Read(c, f)
                /\ \A m \in ExternalEnvelopes : ~ENABLED ExternalSend(c, m)
                /\ \A d \in Conns :
                      (svc[d] = "idle" /\ \A e \in Conns : e < d => svc[e] # "idle")
                          => ENABLED Accept(d, PATH))

\* the first connection was dropped for its path; the second, on PATH, has a
\* session that has dispatched a frame to its handler
C12_Witness ==
    /\ svc[1] = "dropped"
    /\ SessionState(2) = "OPEN"
    /\ last = [conn |-> 2, got |-> "frame", exc |-> "none"]


\* C13: every step of the service touches the state of at most one
\* connection (its handler position, duties, cancellations, queue, transport
\* and subscriptions), so closing a session cancels that session's duties
\* only; and what a connection can do next depends on its own state alone:
\* the next connection can be accepted, a duty just made can take its first
\* step, a duty waiting for input can receive,
\* a duty with a queued message can take it, a duty in a transport write can
\* complete it, and a session with a finished duty can close, whatever the
\* other sessions are waiting for.
C13_SessionsIndependent ==
    /\ [][\E c \in Conns : \A d \in Conns \ {c} : SameConn(d)]_vars
    /\ [](\A c \in Conns :
            /\ (Listening(wsmain) /\ svc[c] = "idle"
                    /\ \A d \in Conns : d < c => svc[d] # "idle")
                  => ENABLED Accept(c, PATH)
            /\ rd[c] = "created" => ENABLED ReadStart(c)
            /\ wr[c] = "created" => ENABLED WriteStart(c)
            /\ (rd[c] = "recv" /\ Started(c) /\ "read" \notin cancelReq[c])
                  => ENABLED Read(c, NoData)
            /\ (wr[c] = "get" /\ Started(c) /\ "write" \notin cancelReq[c]
                    /\ sendq[c] # << >>)
                  => ENABLED WriteTake(c)
            /\ (wr[c] = "send" /\ Started(c) /\ "write" \notin cancelReq[c])
                  => ENABLED WriteSend(c)
            /\ (svc[c] = "processing" /\ FirstCompleted(rd[c], wr[c]))
                  => ENABLED ProcessResume(c))

\* the first session is suspended in a transport write with a message queued
\* behind it; the second has been accepted, has received a frame and has
\* written its reply
C13_Witness ==
    /\ SessionState(1) = "OPEN"
    /\ wr[1] = "send"
    /\ rd[1] = "recv"
    /\ SessionState(2) = "OPEN"
    /\ wire[2] # << >>


\* C15 as claimed: after the subscribe handler has completed for a frame with
\* a valid entity, the address is among the session's subscribed addresses.
C15_AsClaimed ==
    [][\A c \in Conns, f \in Frames :
          (last'.conn = c /\ Read(c, f) /\ f.type.s = "subscribe"
                /\ _dispatch(f).exc = "none") =>
              \E i \in DOMAIN subscriptions'[c] :
                  subscriptions'[c][i] =
                      Addr(address(f.entity).ip, address(f.entity).port)]_vars


\* C18: with the write duty scheduled fairly and transport writes that
\* complete, the k-th message send() enqueued on a session is eventually
\* written, unless the session leaves OPEN first.  The write duty writes
\* only the message it took from the queue, and with the queue empty and
\* nothing taken it is suspended in get(): it can neither take nor write.
C18_QueuedIsEventuallyWritten ==
    /\ \A c \in {1}, k \in 1..MaxInputs :
          (Len(enq[c]) >= k) ~>
              \/ Len(wire[c]) >= k /\ SubSeq(wire[c], 1, k) = SubSeq(enq[c], 1, k)
              \/ SessionState(c) # "OPEN"
    /\ [](\A c \in Conns :
            /\ wr[c] = "send" <=> inflight[c] # << >> /\ wr[c] \notin {"failed", "cancelled"}
            /\ (wr[c] = "get" /\ sendq[c] = << >>) =>
                  ~ENABLED WriteTake(c) /\ ~ENABLED WriteSend(c))
    /\ [][\A c \in Conns :
            wire'[c] # wire[c] =>
                /\ wr[c] = "send"
                /\ wire'[c] = Append(wire[c], inflight[c][1])]_vars

\* an OPEN session whose two messages, an error envelope among them, have
\* both been written; the write duty waits on the empty queue
C18_Witness ==
    \E c \in Conns :
        /\ SessionState(c) = "OPEN"
        /\ Len(enq[c]) = 2
        /\ wire[c] = enq[c]
        /\ wr[c] = "get"
        /\ sendq[c] = << >>
        /\ \E i \in 1..2 : enq[c][i].type = "error"


\* the entities of the error envelopes among the messages q, in order
ErrorTexts(q) ==
    LET errors == SelectSeq(q, LAMBDA m : m.type = "error")
    IN  [i \in DOMAIN errors |-> errors[i].entity]

\* C19: a turn of the read duty on a frame begins and ends in recv(): when
\* the duty is ready for the next frame the handling of the one before has
\* finished, its error reply (if it was rejected) at the tail of the queue.
\* So the error envelopes a session has enqueued, and those written, being
\* written and still queued, are the replies to its rejected frames in the
\* order in which the frames were received.
C19_FramesHandledInOrder ==
    /\ [](\A c \in Conns :
            /\ ErrorTexts(enq[c]) = offences[c]
            /\ wr[c] # "failed" =>
                  ErrorTexts(wire[c] \o inflight[c] \o sendq[c]) = offences[c])
    /\ [][\A c \in Conns :
            (last'.conn = c /\ last'.got = "frame") =>
                /\ rd[c] = "recv" /\ rd'[c] = "recv"
                /\ IF last'.exc = "MessageError"
                   THEN /\ Len(offences'[c]) = Len(offences[c]) + 1
                        /\ sendq'[c] = Append(sendq[c],
                              Envelope("error", offences'[c][Len(offences'[c])]))
                   ELSE /\ offences'[c] = offences[c]
                        /\ sendq'[c] = sendq[c]]_vars

\* two frames of one session were rejected for different reasons and the
\* duty waits for the next frame; both replies are queued
C19_Witness ==
    \E c \in Conns :
        /\ Len(offences[c]) = 2
        /\ offences[c][1] # offences[c][2]
        /\ rd[c] = "recv"
        /\ ErrorTexts(sendq[c]) = offences[c]

\* C20 as claimed: whenever a connection can be accepted or a session is
\* running, the cache context entered at start-up has not been exited.
C20_AsClaimed ==
    ((\E c \in Conns, p \in Paths : ENABLED Accept(c, p))
            \/ (\E c \in Conns : svc[c] = "processing")) =>
        CacheContext(wsmain) = "entered"

\* a subscribe entity of the shape {ip: string, port: integer} that names an
\* address, its two members in either order
NamesAddress(e) ==
    /\ IsIpPort(e)
    /\ Len(e.keys) = 2
    /\ e.ip.s \in ParseableIps
    /\ e.port.n \in 0..65535

\* C21 as claimed: when a session reads a subscribe frame whose entity is a
\* valid {ip, port} object, the subscribe handler is handed the Address whose
\* ip is the entity's ip member and whose port is the entity's port member,
\* whichever of the two members the decoded object iterates first.
C21_AsClaimed ==
    [][\A c \in {last'.conn} \cap Conns, f \in Frames :
          (Read(c, f) /\ EnvelopeSchemaOk(f) /\ f.type.s = "subscribe"
                /\ NamesAddress(f.entity)) =>
              /\ _dispatch(f).exc = "none"
              /\ address(f.entity).exc = "none"
              /\ address(f.entity).ip = f.entity.ip.s
              /\ address(f.entity).port = f.entity.port.n]_vars


(***************************************************************************)
(* Properties of the poller.                                               *)
(***************************************************************************)
\* C2: when a sub-query of the current address has timed out, met compressed
\* fragments or got a broken response, the poll has failed with PollError, no
\* set() was issued for the address, and the scheduler stands at the head of
\* its for loop, about to draw the next address.
C2_FailedQueryIsSkipped ==
    (qfail.query \in {"info", "players", "rules"}
            /\ qfail.error \in {"NoResponseError", "NotImplementedError",
                                "BrokenMessageError"}) =>
        /\ outcome = "PollError"
        /\ nset = 0
        /\ lastSet = NoSet
        /\ pc = "next"
        /\ exitExc = "none"
        /\ geoip = "open"

\* the rules query of an address met compressed fragments while the interest
\* queue holds a further address
C2_Witness ==
    /\ qfail = [query |-> "rules", error |-> "NotImplementedError"]
    /\ pc = "next"
    /\ iqueue # << >>

\* C6 as claimed: once the scheduler loop is running nothing that fails while
\* an address is polled ends it.
C6_LoopNeverEnds ==
    w_cache # 0 => pc # "exited"

\* C8: the two cache connections are distinct; addresses are popped and
\* enumerated on the read connection only, set() is issued on the write
\* connection only; a poll that returned a Status is followed by exactly one
\* set(), of that Status, and no other poll by any.
C8_SetOnWriteConnectionOnly ==
    /\ w_cache # 0 => r_cache # 0 /\ r_cache # w_cache
    /\ \A o \in ops :
          /\ o[2] = "set" => o[1] = w_cache /\ o[1] # r_cache
          /\ o[2] \in {"pop", "all_iterator"} => o[1] = r_cache /\ o[1] # w_cache
    /\ nset <= 1
    /\ nset = 1 => outcome = "polled" /\ pc = "next"
    /\ pc = "set" => outcome = "polled" /\ nset = 0 /\ ENABLED Set
    /\ (outcome = "polled" /\ pc = "next") =>
          /\ nset = 1
          /\ lastSet = [session |-> w_cache, status |-> status]
          /\ status.address = cur
          /\ cur \in cached

\* a Status was set after its address was popped
C8_Witness ==
    /\ pc = "next"
    /\ nset = 1
    /\ ops = { << r_cache, "pop" >>, << w_cache, "set" >> }

\* C9: with no push by a producer since the drain started, the addresses a
\* drain has yielded followed by what the queue still holds are the queue as
\* it was when the drain started; when the drain has ended it has yielded
\* that whole queue and the queue is empty; the empty signal ends the drain
\* and never the scheduler, which starts the next drain.
C9_DrainYieldsQueueInOrder ==
    /\ (iter.kind = "interest" /\ fresh) => yielded \o iqueue = drainStart
    /\ (iter.kind = "interest" /\ fresh /\ pc = "loop") =>
          /\ ndrain > 0
          /\ yielded = drainStart
          /\ iqueue = << >>
    /\ exitExc # "EmptyQueueError"
    /\ (pc = "loop" /\ ~all_) => ENABLED Loop

\* the first drain yielded the queue [a, a, b] it started with; the second,
\* of the then empty queue, has ended having yielded nothing
C9_Witness ==
    /\ pc = "loop"
    /\ ndrain = 2
    /\ nproduced = 0
    /\ prevDrain = << Addr("10.0.0.1", 27015), Addr("10.0.0.1", 27015),
                      Addr("10.0.0.2", 27015) >>
    /\ drainStart = << >>
    /\ yielded = << >>
    /\ iqueue = << >>

\* C14 as claimed: when the geolocation database cannot be opened the poller
\* command ends with FatalError, with no cache connection opened and no
\* address drawn.
C14_AsClaimed ==
    (pc = "exited" /\ geoip = "unbound") =>
        /\ exitExc = "FatalError"
        /\ nconn = 0 /\ r_cache = 0 /\ w_cache = 0
        /\ ops = {} /\ cur = NoAddr

\* the step is the for loop asking its iterator for the next address
IsDraw == calls' # calls /\ calls'[Len(calls')] \in {"enter", "next"}

\* C16: the for loop asks for the next address only from its head, when the
\* body for the previous address has run to its end: the poll returned and
\* its Status was set, or the poll failed with PollError and nothing was
\* set, or no address had been drawn.  In interest mode the popped address
\* stays held by its interesting_context() for the whole of its poll and
\* write; the context is left when the generator is resumed for the next
\* address, and only then is the next context entered.
C16_OneAddressAtATime ==
    /\ [](/\ pc \in {"info", "players", "rules", "tags", "geo", "set"} =>
                /\ cur # NoAddr
                /\ iter.kind = "interest" => iter.held = cur
           /\ \A i \in DOMAIN calls :
                /\ calls[i] = "exit" => i = 1
                /\ calls[i] \in {"enter", "next"} =>
                      i = 1 \/ (i = 2 /\ calls[1] = "exit"))
    /\ [][IsDraw =>
            /\ pc = "next"
            /\ \/ calls = << >>
               \/ calls[Len(calls)] = "set" /\ outcome = "polled" /\ nset = 1
               \/ outcome = "PollError" /\ nset = 0
               \/ calls[Len(calls)] \in {"enter", "next"} /\ cur = NoAddr
            /\ (iter.kind = "interest" /\ iter.held # NoAddr) =>
                  calls'[1] = "exit" /\ calls'[2] = "enter"
            /\ (iter.kind = "interest" /\ iter.held = NoAddr) =>
                  calls' = << "enter" >>]_vars

\* interest mode: the first address was polled and its Status set; its
\* context was then left and the second address popped, whose poll begins
C16_Witness ==
    /\ ~all_
    /\ pc = "info"
    /\ calls = << "exit", "enter" >>
    /\ Len(yielded) = 2
    /\ yielded[1] \in cached
    /\ iter.held = yielded[2]

\* the calls made for the current address, without the draw that begins them
Polls == SelectSeq(calls, LAMBDA x : x \notin {"exit", "enter", "next"})

\* C17: the calls made for an address are an initial part of info, players,
\* rules, evaluate, city (then set), each at most once.  A poll that returned
\* a Status made all five; the tagger is called only after the three queries
\* have succeeded and the geolocation only after the tagger; a query that
\* failed is the last call made for the address.
C17_QueriesInOrder ==
    LET order == << "info", "players", "rules", "evaluate", "city", "set" >>
    IN  /\ IsPrefix(Polls, order)
        /\ outcome = "polled" => IsPrefix(SubSeq(order, 1, 5), Polls)
        /\ (\E i \in DOMAIN calls : calls[i] = "evaluate") =>
              /\ qfail = NoFail
              /\ IsPrefix(<< "info", "players", "rules" >>, Polls)
              /\ info # NoInfo \/ pc = "next"
        /\ qfail.query = "info" => Polls = << "info" >>
        /\ qfail.query = "players" => Polls = << "info", "players" >>
        /\ qfail.query = "rules" => Polls = << "info", "players", "rules" >>
        /\ qfail # NoFail => tags = {} /\ status = NoStatus
        /\ pc = "tags" => Polls = << "info", "players", "rules" >>
        /\ pc = "geo" => Polls = << "info", "players", "rules", "evaluate" >>

\* the three queries succeeded, the tagger and the geolocation were called
\* after them, and the poll returned
C17_Witness ==
    /\ pc = "set"
    /\ outcome = "polled"
    /\ Polls = << "info", "players", "rules", "evaluate", "city" >>

\* the time span of a timedelta, in milliseconds
Millis(td) == td.days * 86400000 + td.seconds * 1000 + td.microseconds \div 1000

\* C10: the scores of the Status are the entries of the players response
\* that have a name, in their order, each as (name, score, duration); current,
\* max and bots are those of the info response.
C10_ScoresAreNamedEntries ==
    pc = "set" =>
        LET named == { i \in DOMAIN players : players[i].name # "" }
            scores == status.players.scores
        IN  /\ Len(scores) = Cardinality(named)
            /\ \A i \in named :
                  LET k == Cardinality({ j \in named : j <= i })
                  IN  /\ scores[k].name = players[i].name
                      /\ scores[k].score = players[i].score
                      /\ Millis(scores[k].duration) = players[i].duration
                      /\ scores[k].duration.seconds \in 0..86399
                      /\ scores[k].duration.microseconds \in 0..999999
                      /\ scores[k].duration.microseconds % 1000 = 0
            /\ status.players.current = info.player_count
            /\ status.players.max = info.max_players
            /\ status.players.bots = info.bot_count

\* Bob alone, on a server whose info response counts three players
C10_Witness ==
    /\ pc = "set"
    /\ players = << PlayerEntry("Bob", 5, 90000) >>
    /\ status.players.scores =
          << [name |-> "Bob", score |-> 5,
              duration |-> [days |-> 0, seconds |-> 90, microseconds |-> 0]] >>
    /\ info.player_count = 3
    /\ status.players.current = 3

=============================================================================
